---- MODULE Spec2Model ----
(***************************************************************************)
(* Wizard Game Server: the real-time layer of server.js.                   *)
(*   activePlayers  : Map  playerId  -> socket.id                          *)
(*   playerSockets  : Map  socket.id -> playerData                         *)
(*   recentSpells   : array of spell records, capped and swept by age      *)
(* Every Socket.IO handler runs to completion, so each handler is one      *)
(* action.  The messages a handler emits are kept in `emitted`, one entry  *)
(* per delivery (recipient socket, event name, payload).                   *)
(***************************************************************************)
EXTENDS Integers, Sequences, FiniteSets, TLC

\* ---------------------------------------------------------------- bounds
MaxConns == 3          \* sockets ever opened (socket ids are never reused)
MaxCasts == 1          \* spell casts, relay specification
MaxNow == 7500         \* last value of the clock, in ms
MaxCasters == 1        \* sockets ever opened, spell-buffer specifications
MaxSweepCasts == 3     \* casts between two sweeps, sweep specification
OverCapacity == 2      \* casts beyond MAX_SPELL_HISTORY between two sweeps
MaxPeers == 2          \* sockets ever opened, REST and malformed-payload specifications
MaxPending == 1        \* REST requests awaiting the database at one time
MaxTotalXP == 300      \* largest total XP given to the level calculators
MaxXP == 500           \* largest XP a player is taken to
MaxGalleons == 200     \* largest purse a request starts from
MaxInFlight == 2       \* purchase requests between their read and their save
MaxPurchases == 3      \* purchase requests ever made
MaxLockPeriods == 3    \* last value of the clock of the logins, in lock times

\* ------------------------------------------------------ program constants
MAX_SPELL_HISTORY == 50
SPELL_TIMEOUT == 5000
SWEEP_INTERVAL == 5000
INITIAL_HEALTH == 100
DEFAULT_DAMAGE == 10
DEFAULT_SPEED == 5
XP_PER_SEGMENT == 20            \* utils/xpCalculator.js
SEGMENTS_PER_LEVEL == 5
GAME_XP_PER_SEGMENT == 20       \* routes/game.js
GAME_SEGMENTS_PER_LEVEL == 5
GALLEONS_PER_LEVEL == 10
HORCRUX_EVERY_N_LEVELS == 10
HEALTH_INCREASE_PER_HORCRUX == 50
HEALTH_INCREASE_PER_LEVEL == 5
MAX_LOGIN_ATTEMPTS == 5
LOCK_TIME == 900000             \* 15 * 60 * 1000

\* ------------------------------------------------------------ value sets
\* A payload is a record; a field the client did not send is not in its
\* DOMAIN and reads as undefined.
Undefined == "undefined"
NoSession == [undefined |-> TRUE]
NoPayload == [undefined |-> TRUE]
Absent == 0

PlayerIds == {"p1", "p2"}
Origin == [x |-> 0, y |-> 0]
Away == [x |-> 5, y |-> 5]
TickSteps == {2500}
LongTickSteps == {SPELL_TIMEOUT + 1}

\* The payloads the clients send.
JoinPayloads ==
    {[playerId |-> "p1", username |-> "Harry", house |-> "Gryffindor"],
     [playerId |-> "p2", username |-> "Ron", house |-> "Slytherin",
      position |-> Away]}
CasterPayloads == {[playerId |-> "p1", username |-> "Harry", house |-> "Gryffindor"]}
MovePayloads == {[position |-> Away]}
SpellPayloads ==
    {[spellName |-> "Stupefy", position |-> Away, direction |-> [x |-> 1, y |-> 0]]}
DamagePayloads == {[targetId |-> p, damage |-> 25, source |-> "spell"] : p \in PlayerIds}
\* The death and chat payloads also carry identity fields the handlers do
\* not read.
DeathPayloads == {[killerId |-> "p2", playerId |-> "p2"]}
ChatPayloads == {[message |-> "hi", username |-> "Draco", house |-> "Slytherin"]}

\* Payloads that lack a required field.
MalformedJoinPayloads == {[username |-> "Harry", house |-> "Gryffindor"]}
MalformedMovePayloads == {[x |-> 5, y |-> 5]}
MalformedDamagePayloads == {[damage |-> 25, source |-> "spell"]}

\* Bodies of POST /player/position.
PositionBodies ==
    {[playerId |-> "p1", position |-> Away, zoneId |-> "forest", health |-> 80,
      maxHealth |-> 120],
     [playerId |-> "p1", zoneId |-> "forest"]}

Has(data, f) == f \in DOMAIN data

\* The object literal { f1, f2, ... } built from values read off data: a field
\* whose value is undefined stays undefined.
Pick(data, fields) == [f \in fields \cap DOMAIN data |-> data[f]]

\* A playerId as a Map key or a comparison operand.
IdOf(p) == IF Has(p, "playerId") THEN p.playerId ELSE Undefined

VARIABLES
    sockets,          \* ids of the sockets that are connected
    nextId,           \* id the next connecting socket gets
    activePlayers,    \* playerId -> socket.id, Absent when the key is not set
    playerSockets,    \* socket.id -> playerData, entries in insertion order
    recentSpells,     \* the recent-spell buffer
    now,              \* Date.now()
    nextSweep,        \* earliest time the interval timer fires next
    emitted,          \* deliveries made by the handler that ran last
    last,             \* the event that handler processed
    castsSinceSweep,  \* history: every record pushed since the last sweep
    lastJoin,         \* history: playerId -> the socket of its latest join
    pending,          \* bodies of the REST requests that await the database
    player,           \* the player document as the database stores it
    procs,            \* purchase requests between their read and their save
    history           \* history: purchase requests made, galleons spent by
                      \* the successful ones, wrong passwords in a row

\* The variables of the persistent store.
store == <<player, procs, history>>

\* The variables of the real-time layer that no REST handler of the store
\* touches.
realtime == <<sockets, nextId, activePlayers, playerSockets, recentSpells,
              nextSweep, castsSinceSweep, lastJoin, pending>>

vars == <<sockets, nextId, activePlayers, playerSockets, recentSpells, now,
          nextSweep, emitted, last, castsSinceSweep, lastJoin, pending, store>>

\* --------------------------------------------------------- player model
\* null, for a field of the document.
Null == "null"

\* No date: lockExpiry before the first lock and after an unlock.
NoDate == 0

\* How far the clock moves between two logins.
LockSteps == {LOCK_TIME \div 3, LOCK_TIME \div 2}

\* The defaults of playerSchema, for the fields the handlers below use (the
\* stats counters, health points and session fields are left out).
SchemaDefaults ==
    [xp |-> 0, xpLevel |-> 1, xpProgress |-> 0, galleons |-> 100, horcruxes |-> 1,
     maxHealth |-> 100, unlockedSpells |-> <<"Lumos", "Stupefy">>,
     inventory |-> <<>>, petId |-> Null,
     loginAttempts |-> 0, accountLocked |-> FALSE, lockExpiry |-> NoDate]

\* SPELL_UNLOCKS, in the order of its keys.
SPELL_UNLOCKS ==
    <<[spellName |-> "Lumos", unlockLevel |-> 0],
      [spellName |-> "Stupefy", unlockLevel |-> 0],
      [spellName |-> "Expelliarmus", unlockLevel |-> 3],
      [spellName |-> "Protego", unlockLevel |-> 5],
      [spellName |-> "Expecto Patronum", unlockLevel |-> 10],
      [spellName |-> "Avada Kedavra", unlockLevel |-> 15],
      [spellName |-> "Imperio", unlockLevel |-> 20]>>

\* The request bodies of the XP routes.
XpAmounts == {0, 20, 100, 400}
RemoveAmounts == {20, 100}
KillBodies == {[sameHouse |-> TRUE, enemyLevel |-> 5],
               [sameHouse |-> FALSE, enemyLevel |-> 5]}
QuestBodies == {[difficulty |-> 1]}

\* The entries of SHOP_ITEMS the purchases below ask for.
SHOP_ITEMS ==
    [toad |-> [type |-> "pet", price |-> 100, requiredLevel |-> 1],
     health_potion |-> [type |-> "potion", price |-> 50]]

\* The bodies of POST /purchase, with the quantity absent, zero, positive
\* and negative; `ghost_quill` is not in the shop.
PurchaseBodies ==
    {[itemId |-> "toad"],
     [itemId |-> "toad", quantity |-> -1],
     [itemId |-> "health_potion", quantity |-> 0],
     [itemId |-> "health_potion", quantity |-> 2],
     [itemId |-> "health_potion", quantity |-> -1],
     [itemId |-> "ghost_quill", quantity |-> 1]}

\* The `min` and `max` validators that run when a document is saved.
Validates(doc) ==
    /\ doc.xp >= 0
    /\ doc.xpLevel >= 1
    /\ doc.xpProgress >= 0
    /\ doc.galleons >= 0
    /\ doc.horcruxes >= 0 /\ doc.horcruxes <= 10
    /\ doc.maxHealth >= 1
    /\ \A i \in DOMAIN doc.inventory : doc.inventory[i].quantity >= 0

\* ------------------------------------------------------------------ Map
\* A JavaScript Map as a sequence of [id, data] entries in insertion order.
MapHas(m, k) == \E i \in DOMAIN m : m[i].id = k

MapGet(m, k) ==
    IF MapHas(m, k) THEN (CHOOSE e \in {m[i] : i \in DOMAIN m} : e.id = k).data
    ELSE NoSession

\* Variant: set always adds an entry.
MapSetAppend(m, k, v) == Append(m, [id |-> k, data |-> v])

MapSet(m, k, v) ==
    IF MapHas(m, k)
    THEN [i \in DOMAIN m |-> IF m[i].id = k THEN [id |-> k, data |-> v] ELSE m[i]]
    ELSE Append(m, [id |-> k, data |-> v])

MapDelete(m, k) == SelectSeq(m, LAMBDA e : e.id # k)

MapKeys(m) == {m[i].id : i \in DOMAIN m}

\* ------------------------------------------------------------- emission
Delivery(to, event, payload) == [to |-> to, event |-> event, payload |-> payload]

\* The connected sockets in S, in ascending id order.
InOrder(S) == SelectSeq([i \in 1..(nextId - 1) |-> i], LAMBDA i : i \in S)

DeliverTo(S, event, payload) ==
    LET ids == InOrder(S)
    IN [i \in DOMAIN ids |-> Delivery(ids[i], event, payload)]

\* socket.emit: to the socket itself.
SocketEmit(c, event, payload) == DeliverTo({c} \cap sockets, event, payload)

\* socket.broadcast.emit: to every connected socket except the sender.
BroadcastEmit(c, event, payload) == DeliverTo(sockets \ {c}, event, payload)

\* io.emit: to every connected socket.
IoEmit(event, payload) == DeliverTo(sockets, event, payload)

\* io.to(id).emit: to the sockets in room id, that is the socket with that id.
IoToEmit(id, event, payload) == DeliverTo({id} \cap sockets, event, payload)

\* threw: the handler ended in an uncaught exception; repeated: the event is
\* the one handled just before, from the same socket with the same payload.
Event(type, c, data, joined, from) ==
    [type |-> type, conn |-> c, data |-> data, joined |-> joined, from |-> from,
     threw |-> FALSE, repeated |-> FALSE]

\* ----------------------------------------------------------------- Init
Init ==
    /\ sockets = {}
    /\ nextId = 1
    /\ activePlayers = [p \in PlayerIds \cup {Undefined} |-> Absent]
    /\ playerSockets = <<>>
    /\ recentSpells = <<>>
    /\ now = 0
    /\ nextSweep = SWEEP_INTERVAL
    /\ emitted = <<>>
    /\ last = Event("init", Absent, NoPayload, FALSE, <<>>)
    /\ castsSinceSweep = <<>>
    /\ lastJoin = [p \in PlayerIds \cup {Undefined} |-> Absent]
    /\ pending = <<>>
    /\ player = SchemaDefaults
    /\ procs = <<>>
    /\ history = [requests |-> 0, spent |-> 0, failures |-> 0]

\* io.on('connection'): a new socket with a fresh id; its handlers are set.
Connect(max) ==
    /\ nextId <= max
    /\ sockets' = sockets \cup {nextId}
    /\ nextId' = nextId + 1
    /\ emitted' = <<>>
    /\ last' = Event("connection", nextId, NoPayload, FALSE, <<>>)
    /\ UNCHANGED <<activePlayers, playerSockets, recentSpells, now, nextSweep,
                   castsSinceSweep, lastJoin, pending, store>>

\* --------------------------------------------------------- player:join
\* Variant: the position is stored and announced as sent.
PositionAsSent(data) ==
    IF Has(data, "position") THEN data.position ELSE [undefined |-> TRUE]

\* position || { x: 0, y: 0 }
PositionOrDefault(data) == IF Has(data, "position") THEN data.position ELSE Origin

\* Variant: the pointer is set only when the key is not yet in the Map.
JoinActivePlayersFirstWins(ap, c, data) ==
    IF ap[IdOf(data)] = Absent THEN [ap EXCEPT ![IdOf(data)] = c] ELSE ap

JoinActivePlayers(ap, c, data) == [ap EXCEPT ![IdOf(data)] = c]

\* Variant: a join evicts the sessions that other sockets hold for the playerId.
JoinPlayerSocketsEvicting(ps, c, data) ==
    MapSet(SelectSeq(ps, LAMBDA e : e.id = c \/ IdOf(e.data) # IdOf(data)),
           c, Pick(data, {"playerId", "username", "house"})
              @@ [position |-> PositionOrDefault(data),
                  health |-> INITIAL_HEALTH,
                  maxHealth |-> INITIAL_HEALTH])

JoinPlayerSockets(ps, c, data) ==
    MapSet(ps, c, Pick(data, {"playerId", "username", "house"})
                  @@ [position |-> PositionOrDefault(data),
                      health |-> INITIAL_HEALTH,
                      maxHealth |-> INITIAL_HEALTH])

\* Variant: the filter drops the joiner's own connection, not its playerId.
CurrentPlayerEntriesByConn(ps, c, playerId) ==
    SelectSeq(ps, LAMBDA e : e.id # c)

\* Array.from(playerSockets.values()).filter(p => p.playerId !== playerId),
\* each value kept with the key it is stored under.
CurrentPlayerEntries(ps, c, playerId) ==
    SelectSeq(ps, LAMBDA e : IdOf(e.data) # playerId)

PublicFields(p) == Pick(p, {"playerId", "username", "house", "position"})

\* Variant: the roster is computed before the two set calls.
JoinRosterEntriesEarly(psBefore, psAfter, c, playerId) ==
    SelectSeq(psBefore, LAMBDA e : IdOf(e.data) # playerId)

\* The roster is computed after the two set calls.
JoinRosterEntries(psBefore, psAfter, c, playerId) ==
    CurrentPlayerEntries(psAfter, c, playerId)

JoinedData(data) ==
    Pick(data, {"playerId", "username", "house"})
    @@ [position |-> PositionOrDefault(data)]

JoinEmits(c, entries, data) ==
    SocketEmit(c, "players:list",
               [players |-> [i \in DOMAIN entries |-> PublicFields(entries[i].data)]])
    \o BroadcastEmit(c, "player:joined", JoinedData(data))

Join(c, data) ==
    /\ c \in sockets
    /\ LET ap == JoinActivePlayers(activePlayers, c, data)
           ps == JoinPlayerSockets(playerSockets, c, data)
           entries == JoinRosterEntries(playerSockets, ps, c, IdOf(data))
       IN /\ activePlayers' = ap
          /\ playerSockets' = ps
          /\ emitted' = JoinEmits(c, entries, data)
          /\ last' = [Event("player:join", c, data, TRUE,
                            [i \in DOMAIN entries |-> entries[i].id])
                      EXCEPT !.repeated = /\ last.type = "player:join"
                                          /\ last.conn = c
                                          /\ last.data = data]
    /\ lastJoin' = [lastJoin EXCEPT ![IdOf(data)] = c]
    /\ UNCHANGED <<sockets, nextId, recentSpells, now, nextSweep, castsSinceSweep,
                   pending, store>>

\* ---------------------------------------------------------- disconnect
\* Variant: the playerId pointer is left in place.
DisconnectKeepsPointer(ap, playerData) == ap

DisconnectActivePlayers(ap, playerData) ==
    IF playerData # NoSession THEN [ap EXCEPT ![IdOf(playerData)] = Absent]
    ELSE ap

\* Variant: the session outlives its socket.
DisconnectKeepsSession(ps, c, playerData) == ps

DisconnectPlayerSockets(ps, c, playerData) ==
    IF playerData # NoSession THEN MapDelete(ps, c) ELSE ps

\* Variant: the departure carries the username.
DisconnectEmitsUsername(c, playerData) ==
    IF playerData # NoSession
    THEN DeliverTo(sockets \ {c}, "player:left", playerData.username)
    ELSE <<>>

\* The socket has left before its 'disconnect' handler runs.
DisconnectEmits(c, playerData) ==
    IF playerData # NoSession
    THEN DeliverTo(sockets \ {c}, "player:left", IdOf(playerData))
    ELSE <<>>

Disconnect(c) ==
    /\ c \in sockets
    /\ LET playerData == MapGet(playerSockets, c)
       IN /\ activePlayers' = DisconnectActivePlayers(activePlayers, playerData)
          /\ playerSockets' = DisconnectPlayerSockets(playerSockets, c, playerData)
          /\ emitted' = DisconnectEmits(c, playerData)
          /\ last' = Event("disconnect", c, NoPayload, playerData # NoSession, <<>>)
    /\ sockets' = sockets \ {c}
    /\ UNCHANGED <<nextId, recentSpells, now, nextSweep, castsSinceSweep, lastJoin, pending, store>>

\* -------------------------------------------------------- damage:dealt
\* Variant: the damage is broadcast to the other sockets.
DamageDealtEmitsToOthers(c, playerData, data) ==
    IF playerData # NoSession
    THEN LET targetSocketId ==
                 activePlayers[IF Has(data, "targetId") THEN data.targetId ELSE Undefined]
         IN IF targetSocketId # Absent
            THEN BroadcastEmit(c, "damage:received",
                               [attackerId |-> IdOf(playerData)]
                               @@ Pick(data, {"damage", "source"}))
            ELSE <<>>
    ELSE <<>>

DamageDealtEmits(c, playerData, data) ==
    IF playerData # NoSession
    THEN LET targetSocketId ==
                 activePlayers[IF Has(data, "targetId") THEN data.targetId ELSE Undefined]
         IN IF targetSocketId # Absent
            THEN IoToEmit(targetSocketId, "damage:received",
                          [attackerId |-> IdOf(playerData)]
                          @@ Pick(data, {"damage", "source"}))
            ELSE <<>>
    ELSE <<>>

\* Variant: the handler also takes the damage off the target's stored health.
DamageDealtApplied(c, data) ==
    /\ c \in sockets
    /\ LET playerData == MapGet(playerSockets, c)
           targetSocketId ==
               activePlayers[IF Has(data, "targetId") THEN data.targetId ELSE Undefined]
           target == MapGet(playerSockets, targetSocketId)
       IN /\ emitted' = DamageDealtEmits(c, playerData, data)
          /\ last' = Event("damage:dealt", c, data, playerData # NoSession, <<>>)
          /\ playerSockets' =
                 IF playerData # NoSession /\ target # NoSession
                 THEN MapSet(playerSockets, targetSocketId,
                             [target EXCEPT !.health = @ - data.damage])
                 ELSE playerSockets
    /\ UNCHANGED <<sockets, nextId, activePlayers, recentSpells,
                   now, nextSweep, castsSinceSweep, lastJoin, pending, store>>

DamageDealt(c, data) ==
    /\ c \in sockets
    /\ LET playerData == MapGet(playerSockets, c)
       IN /\ emitted' = DamageDealtEmits(c, playerData, data)
          /\ last' = Event("damage:dealt", c, data, playerData # NoSession, <<>>)
    /\ UNCHANGED <<sockets, nextId, activePlayers, playerSockets, recentSpells,
                   now, nextSweep, castsSinceSweep, lastJoin, pending, store>>

\* --------------------------------------------------------- player:move
\* playerData.position = data.position, on the stored object.
MovePlayerSockets(ps, c, playerData, data) ==
    IF playerData # NoSession
    THEN MapSet(ps, c, Pick(playerData, DOMAIN playerData \ {"position"})
                       @@ Pick(data, {"position"}))
    ELSE ps

\* Variant: the health a session starts with is sent, not the stored one.
MoveDataInitialHealth(playerData, data) ==
    Pick(playerData, {"playerId", "username", "house"})
    @@ [health |-> INITIAL_HEALTH, maxHealth |-> INITIAL_HEALTH]
    @@ Pick(data, {"position"})

MoveData(playerData, data) ==
    Pick(playerData, {"playerId", "username", "house", "health", "maxHealth"})
    @@ Pick(data, {"position"})

\* The log line reads data.position.x before the broadcast.
MoveEmits(c, playerData, data) ==
    IF playerData # NoSession /\ Has(data, "position")
    THEN BroadcastEmit(c, "player:moved", MoveData(playerData, data))
    ELSE <<>>

\* data.position.x, with data.position undefined, is a TypeError.
MoveThrows(playerData, data) == playerData # NoSession /\ ~Has(data, "position")

Move(c, data) ==
    /\ c \in sockets
    /\ LET playerData == MapGet(playerSockets, c)
       IN /\ playerSockets' = MovePlayerSockets(playerSockets, c, playerData, data)
          /\ emitted' = MoveEmits(c, playerData, data)
          /\ last' = [Event("player:move", c, data, playerData # NoSession, <<>>)
                      EXCEPT !.threw = MoveThrows(playerData, data)]
    /\ UNCHANGED <<sockets, nextId, activePlayers, recentSpells, now, nextSweep,
                   castsSinceSweep, lastJoin, pending, store>>

\* ---------------------------------------------------------- spell:cast
\* The field `name` with the value of data[f], when data[f] is defined.
Opt(name, data, f) == IF Has(data, f) THEN name :> data[f] ELSE <<>>

\* data[f] || dflt, for a number
NumberOr(data, f, dflt) == IF Has(data, f) /\ data[f] # 0 THEN data[f] ELSE dflt

SpellData(playerData, data, t) ==
    Opt("casterId", playerData, "playerId")
    @@ Opt("casterName", playerData, "username")
    @@ Pick(data, {"spellName", "position", "direction"})
    @@ [color |-> IF Has(data, "color") THEN data.color
                  ELSE [r |-> 1, g |-> 1, b |-> 1, a |-> 1],
        damage |-> NumberOr(data, "damage", DEFAULT_DAMAGE),
        speed |-> NumberOr(data, "speed", DEFAULT_SPEED),
        timestamp |-> t]

\* Variant: over capacity, the newest record is dropped.
SpellPushDropNewest(buf, spellData) ==
    LET pushed == Append(buf, spellData)
    IN IF Len(pushed) > MAX_SPELL_HISTORY THEN SubSeq(pushed, 1, Len(pushed) - 1)
       ELSE pushed

\* Variant: nothing is dropped at capacity.
SpellPushUnbounded(buf, spellData) == Append(buf, spellData)

\* recentSpells.push(spellData); if (length > MAX_SPELL_HISTORY) shift()
SpellPush(buf, spellData) ==
    LET pushed == Append(buf, spellData)
    IN IF Len(pushed) > MAX_SPELL_HISTORY THEN Tail(pushed) ELSE pushed

\* Variant: the cast is sent to every socket.
SpellEmitsToAll(c, playerData, data, t) ==
    IF playerData # NoSession
    THEN IoEmit("spell:casted", SpellData(playerData, data, t))
    ELSE <<>>

SpellEmits(c, playerData, data, t) ==
    IF playerData # NoSession
    THEN BroadcastEmit(c, "spell:casted", SpellData(playerData, data, t))
    ELSE <<>>

SpellCast(c, data, max) ==
    /\ c \in sockets
    /\ Len(castsSinceSweep) < max
    /\ LET playerData == MapGet(playerSockets, c)
       IN /\ recentSpells' =
                 IF playerData # NoSession
                 THEN SpellPush(recentSpells, SpellData(playerData, data, now))
                 ELSE recentSpells
          /\ castsSinceSweep' =
                 IF playerData # NoSession
                 THEN Append(castsSinceSweep, SpellData(playerData, data, now))
                 ELSE castsSinceSweep
          /\ emitted' = SpellEmits(c, playerData, data, now)
          /\ last' = Event("spell:cast", c, data, playerData # NoSession, <<>>)
    /\ UNCHANGED <<sockets, nextId, activePlayers, playerSockets, now, nextSweep,
                   lastJoin, pending, store>>

\* -------------------------------------------------------- player:death
\* Variant: the victim is read from the payload.
DeathEmitsAsSent(c, playerData, data) ==
    IF playerData # NoSession
    THEN BroadcastEmit(c, "player:died", Pick(data, {"playerId", "killerId"}))
    ELSE <<>>

DeathEmits(c, playerData, data) ==
    IF playerData # NoSession
    THEN BroadcastEmit(c, "player:died",
                       Opt("playerId", playerData, "playerId")
                       @@ Pick(data, {"killerId"}))
    ELSE <<>>

PlayerDeath(c, data) ==
    /\ c \in sockets
    /\ LET playerData == MapGet(playerSockets, c)
       IN /\ emitted' = DeathEmits(c, playerData, data)
          /\ last' = Event("player:death", c, data, playerData # NoSession, <<>>)
    /\ UNCHANGED <<sockets, nextId, activePlayers, playerSockets, recentSpells,
                   now, nextSweep, castsSinceSweep, lastJoin, pending, store>>

\* -------------------------------------------------------- chat:message
\* Variant: the session check is missing.
ChatEmitsUnguarded(c, playerData, data, t) ==
    IoEmit("chat:message",
           Pick(playerData, {"username", "house"})
           @@ Pick(data, {"message"})
           @@ [timestamp |-> t])

\* Variant: username and house are read from the payload.
ChatEmitsAsSent(c, playerData, data, t) ==
    IF playerData # NoSession
    THEN IoEmit("chat:message",
                Pick(data, {"username", "house", "message"}) @@ [timestamp |-> t])
    ELSE <<>>

ChatEmits(c, playerData, data, t) ==
    IF playerData # NoSession
    THEN IoEmit("chat:message",
                Pick(playerData, {"username", "house"})
                @@ Pick(data, {"message"})
                @@ [timestamp |-> t])
    ELSE <<>>

ChatMessage(c, data) ==
    /\ c \in sockets
    /\ LET playerData == MapGet(playerSockets, c)
       IN /\ emitted' = ChatEmits(c, playerData, data, now)
          /\ last' = Event("chat:message", c, data, playerData # NoSession, <<>>)
    /\ UNCHANGED <<sockets, nextId, activePlayers, playerSockets, recentSpells,
                   now, nextSweep, castsSinceSweep, lastJoin, pending, store>>

\* ------------------------------------------- POST /player/position (REST)
\* The handler runs in two turns of the event loop: from the request to
\* `await PlayerModel.updateOne`, and from the database's answer to the
\* response.  Requests that fail authentication never reach it.
RemoveAt(q, i) == SubSeq(q, 1, i - 1) \o SubSeq(q, i + 1, Len(q))

\* !playerId || !position
PositionRejected(body) == ~Has(body, "playerId") \/ ~Has(body, "position")

\* The session the request resolves to: activePlayers.get(playerId), when
\* playerSockets holds that socket.
PositionTarget(ap, ps, body) ==
    LET socketId == ap[IdOf(body)]
    IN IF socketId # Absent /\ MapHas(ps, socketId) THEN socketId ELSE Absent

\* position, zoneId, health and maxHealth of the resolved session are
\* assigned from the body; a field the body lacks becomes undefined.
PositionUpdate(ap, ps, body) ==
    LET fields == {"position", "zoneId", "health", "maxHealth"}
        socketId == PositionTarget(ap, ps, body)
        playerData == MapGet(ps, socketId)
    IN IF socketId # Absent
       THEN MapSet(ps, socketId,
                   Pick(playerData, DOMAIN playerData \ fields) @@ Pick(body, fields))
       ELSE ps

\* Variant: the sessions are written after the database has answered.
PositionBeginDeferred(ap, ps, body) == ps

\* First turn, up to the await.
PositionBeginPlayerSockets(ap, ps, body) == PositionUpdate(ap, ps, body)

\* Second turn, after the await: the registry is not touched.
PositionEndPlayerSockets(ap, ps, body) == ps

PositionBegin(body) ==
    /\ Len(pending) < MaxPending
    /\ IF PositionRejected(body)
       THEN /\ last' = Event("position:rejected", Absent, body, FALSE, <<>>)
            /\ UNCHANGED <<playerSockets, pending>>
       ELSE /\ playerSockets' =
                   PositionBeginPlayerSockets(activePlayers, playerSockets, body)
            /\ pending' = Append(pending, body)
            /\ last' = Event("position:begin",
                             PositionTarget(activePlayers, playerSockets, body),
                             body, FALSE, <<>>)
    /\ emitted' = <<>>
    /\ UNCHANGED <<sockets, nextId, activePlayers, recentSpells, now, nextSweep,
                   castsSinceSweep, lastJoin, store>>

\* The database answers (the response is `success`, or 500 when it failed).
PositionEnd(i) ==
    /\ i \in DOMAIN pending
    /\ playerSockets' = PositionEndPlayerSockets(activePlayers, playerSockets, pending[i])
    /\ pending' = RemoveAt(pending, i)
    /\ last' = Event("position:end", Absent, pending[i], FALSE, <<>>)
    /\ emitted' = <<>>
    /\ UNCHANGED <<sockets, nextId, activePlayers, recentSpells, now, nextSweep,
                   castsSinceSweep, lastJoin, store>>

\* -------------------------------------------------- level and progress
\* Variant: a level takes one segment more.
calculateLevelAndProgressLong(totalXP) ==
    LET totalSegments == totalXP \div XP_PER_SEGMENT
    IN [level |-> totalSegments \div (SEGMENTS_PER_LEVEL + 1),
        progress |-> totalSegments % (SEGMENTS_PER_LEVEL + 1),
        totalSegments |-> totalSegments]

\* XPCalculator.calculateLevelAndProgress; Math.floor of a quotient of
\* non-negative integers is \div.
calculateLevelAndProgress(totalXP) ==
    LET totalSegments == totalXP \div XP_PER_SEGMENT
    IN [level |-> totalSegments \div SEGMENTS_PER_LEVEL,
        progress |-> totalSegments % SEGMENTS_PER_LEVEL,
        totalSegments |-> totalSegments]

\* XPCalculator.getTotalXPForLevel
getTotalXPForLevel(level) == (level * SEGMENTS_PER_LEVEL) * XP_PER_SEGMENT

\* calculateLevelAndProgress of routes/game.js
gameCalculateLevelAndProgress(xp) ==
    LET totalSegments == xp \div GAME_XP_PER_SEGMENT
    IN [level |-> totalSegments \div GAME_SEGMENTS_PER_LEVEL,
        progress |-> totalSegments % GAME_SEGMENTS_PER_LEVEL]

\* Both calculators applied to one total XP.
Calculate(xp) ==
    /\ last' = Event("calculate", Absent,
                     [xp |-> xp,
                      calculator |-> calculateLevelAndProgress(xp),
                      game |-> gameCalculateLevelAndProgress(xp)],
                     FALSE, <<>>)
    /\ emitted' = <<>>
    /\ UNCHANGED <<realtime, now, store>>

\* ------------------------------------------------------------ XP routes
\* Each handler below reads the document, changes its copy and saves it;
\* the requests for a player are taken one at a time.
Includes(seq, x) == \E i \in DOMAIN seq : seq[i] = x

Max(a, b) == IF a > b THEN a ELSE b

\* player.save(): a document that fails validation is not written and the
\* handler answers 500.
Save(doc) == IF Validates(doc) THEN doc ELSE player

\* xp, xpLevel and xpProgress after the handler set player.xp.
WithXP(doc, xp) ==
    LET result == gameCalculateLevelAndProgress(xp)
    IN [doc EXCEPT !.xp = xp, !.xpLevel = result.level, !.xpProgress = result.progress]

\* The spells of SPELL_UNLOCKS whose unlockLevel is newLevel and that the
\* player lacks, pushed in order.
RECURSIVE UnlockAt(_, _, _)
UnlockAt(spells, i, newLevel) ==
    IF i > Len(SPELL_UNLOCKS) THEN spells
    ELSE IF SPELL_UNLOCKS[i].unlockLevel = newLevel
            /\ ~Includes(spells, SPELL_UNLOCKS[i].spellName)
         THEN UnlockAt(Append(spells, SPELL_UNLOCKS[i].spellName), i + 1, newLevel)
         ELSE UnlockAt(spells, i + 1, newLevel)

\* handleLevelUp(player, oldLevel, newLevel) of routes/game.js: one call,
\* whatever the distance from oldLevel to newLevel.
handleLevelUp(doc, oldLevel, newLevel) ==
    LET galleonsAwarded == GALLEONS_PER_LEVEL
                           + (IF newLevel % 5 = 0 THEN 10 ELSE 0)
                           + (IF newLevel % 10 = 0 THEN 25 ELSE 0)
        horcrux == newLevel % HORCRUX_EVERY_N_LEVELS = 0
    IN [doc EXCEPT
           !.galleons = @ + galleonsAwarded,
           !.horcruxes = IF horcrux THEN @ + 1 ELSE @,
           !.maxHealth = @ + (IF horcrux THEN HEALTH_INCREASE_PER_HORCRUX ELSE 0)
                           + HEALTH_INCREASE_PER_LEVEL,
           !.unlockedSpells = UnlockAt(@, 1, newLevel)]

\* player.xp += totalXP, the level recomputed, then handleLevelUp when the
\* level rose.
Awarded(doc, totalXP) ==
    LET oldLevel == doc.xpLevel
        gained == WithXP(doc, doc.xp + totalXP)
    IN IF gained.xpLevel > oldLevel THEN handleLevelUp(gained, oldLevel, gained.xpLevel)
       ELSE gained

\* What every XP handler leaves alone, and the bound on the state it starts in.
XpFrame ==
    /\ player.galleons <= MaxGalleons
    /\ emitted' = <<>>
    /\ UNCHANGED <<realtime, now, procs, history>>

\* POST /xp/add
XpAdd(amount) ==
    /\ player.xp + amount <= MaxXP
    /\ player' = IF amount = 0 THEN player ELSE Save(Awarded(player, amount))
    /\ last' = Event("xp:add", Absent, [amount |-> amount], FALSE, <<>>)
    /\ XpFrame

\* POST /xp/remove
XpRemove(amount) ==
    /\ player' = IF amount = 0 THEN player
                 ELSE Save(WithXP(player, Max(0, player.xp - amount)))
    /\ last' = Event("xp:remove", Absent, [amount |-> amount], FALSE, <<>>)
    /\ XpFrame

\* POST /combat/enemy-kill
EnemyKill(body) ==
    /\ player.xp + 20 + body.enemyLevel * 2 <= MaxXP
    /\ player' = IF body.sameHouse
                 THEN Save(WithXP(player, Max(0, player.xp - 30)))
                 ELSE Save(Awarded(player, 20 + body.enemyLevel * 2))
    /\ last' = Event("combat:enemy-kill", Absent, body, FALSE, <<>>)
    /\ XpFrame

\* POST /quest/complete
QuestComplete(body) ==
    /\ player.xp + 50 + body.difficulty * 10 <= MaxXP
    /\ player' = Save(Awarded(player, 50 + body.difficulty * 10))
    /\ last' = Event("quest:complete", Absent, body, FALSE, <<>>)
    /\ XpFrame

\* resetPlayerProgress of routes/game.js
resetPlayerProgress(doc) ==
    [doc EXCEPT !.xp = 0, !.xpLevel = 0, !.xpProgress = 0, !.galleons = 50,
                !.horcruxes = 1, !.maxHealth = 100,
                !.unlockedSpells = <<"Lumos", "Stupefy">>,
                !.inventory = <<>>, !.petId = Null]

\* POST /combat/player-death: a horcrux is lost, or the progress is reset.
PlayerDeathRoute ==
    /\ player' = IF player.horcruxes > 0
                 THEN Save([player EXCEPT !.horcruxes = @ - 1])
                 ELSE Save(resetPlayerProgress(player))
    /\ last' = Event("combat:player-death", Absent, NoPayload, FALSE, <<>>)
    /\ XpFrame

\* playerSchema.methods.resetProgress, called by PlayerController.resetProgress
resetProgress(doc) ==
    [doc EXCEPT !.xp = 0, !.xpLevel = 1, !.xpProgress = 0, !.galleons = 50,
                !.horcruxes = 1, !.maxHealth = 100,
                !.unlockedSpells = <<"Lumos", "Stupefy">>,
                !.inventory = <<>>, !.petId = Null]

ResetProgress ==
    /\ player' = Save(resetProgress(player))
    /\ last' = Event("reset-progress", Absent, NoPayload, FALSE, <<>>)
    /\ XpFrame

\* -------------------------------------------------------- POST /purchase
\* The handler awaits the read of the document and the save of its copy;
\* other requests run in between.  A body always names the caller's own
\* playerId.
\* quantity || 1
QuantityOrOne(body) == NumberOr(body, "quantity", 1)

\* player.inventory.find(i => i.itemId === itemId): its index, 0 when absent
InventoryIndex(inventory, itemId) ==
    IF \E i \in DOMAIN inventory : inventory[i].itemId = itemId
    THEN CHOOSE i \in DOMAIN inventory :
             /\ inventory[i].itemId = itemId
             /\ \A j \in 1..(i - 1) : inventory[j].itemId # itemId
    ELSE 0

\* item.price * purchaseQuantity
TotalCost(item, body) == item.price * QuantityOrOne(body)

\* The answer of the synchronous part, from the copy `doc` that was read:
\* the status, and for 200 the changed copy that is about to be saved.
Purchased(doc, body) ==
    IF body.itemId \notin DOMAIN SHOP_ITEMS THEN [status |-> 404, doc |-> doc, totalCost |-> 0]
    ELSE LET item == SHOP_ITEMS[body.itemId]
             purchaseQuantity == QuantityOrOne(body)
             totalCost == TotalCost(item, body)
             index == InventoryIndex(doc.inventory, body.itemId)
             paid == [doc EXCEPT !.galleons = @ - totalCost]
         IN IF Has(item, "requiredLevel") /\ item.requiredLevel # 0
               /\ doc.xpLevel < item.requiredLevel
            THEN [status |-> 403, doc |-> doc, totalCost |-> totalCost]
            ELSE IF doc.galleons < totalCost
            THEN [status |-> 400, doc |-> doc, totalCost |-> totalCost]
            ELSE [status |-> 200, totalCost |-> totalCost,
                  doc |-> IF item.type = "pet" THEN [paid EXCEPT !.petId = body.itemId]
                          ELSE IF index # 0
                          THEN [paid EXCEPT !.inventory[index].quantity = @ + purchaseQuantity]
                          ELSE [paid EXCEPT !.inventory =
                                    Append(@, [itemId |-> body.itemId,
                                               quantity |-> purchaseQuantity])]]

\* The stored document after the save of the copy `doc`, which was changed
\* as `body` asks: only the paths the handler changed are written.
Written(stored, doc, body) ==
    LET item == SHOP_ITEMS[body.itemId]
        index == InventoryIndex(stored.inventory, body.itemId)
        local == InventoryIndex(doc.inventory, body.itemId)
        paid == [stored EXCEPT !.galleons = doc.galleons]
    IN IF item.type = "pet" THEN [paid EXCEPT !.petId = doc.petId]
       ELSE IF index # 0
       THEN [paid EXCEPT !.inventory[index].quantity = doc.inventory[local].quantity]
       ELSE [paid EXCEPT !.inventory = Append(@, doc.inventory[local])]

\* From the request to `await player.save()`: the document is read, checked
\* and changed in the handler's copy.
PurchaseFind(body) ==
    /\ Len(procs) < MaxInFlight
    /\ history.requests < MaxPurchases
    /\ LET answer == Purchased(player, body)
       IN /\ procs' = IF answer.status = 200
                      THEN Append(procs, [body |-> body, doc |-> answer.doc,
                                          totalCost |-> answer.totalCost])
                      ELSE procs
          /\ last' = Event("purchase:find", Absent,
                           [body |-> body, status |-> answer.status,
                            totalCost |-> answer.totalCost], FALSE, <<>>)
    /\ history' = [history EXCEPT !.requests = @ + 1]
    /\ emitted' = <<>>
    /\ UNCHANGED <<realtime, now, player>>

\* The save: a copy that fails validation is not written (500); otherwise
\* the changed paths are written and the request reports success.
PurchaseSave(i) ==
    /\ i \in DOMAIN procs
    /\ LET proc == procs[i]
           saved == Validates(proc.doc)
       IN /\ player' = IF saved THEN Written(player, proc.doc, proc.body) ELSE player
          /\ history' = IF saved THEN [history EXCEPT !.spent = @ + proc.totalCost]
                        ELSE history
          /\ last' = Event("purchase:save", Absent,
                           [body |-> proc.body, status |-> IF saved THEN 200 ELSE 500,
                            totalCost |-> proc.totalCost], FALSE, <<>>)
    /\ procs' = RemoveAt(procs, i)
    /\ emitted' = <<>>
    /\ UNCHANGED <<realtime, now>>

\* ----------------------------------------------------------- POST /login
\* The login attempts for an account are taken one at a time.
\* Variant: an expired lock is lifted without resetting the attempts.
LoginOutcomeKeepsAttempts(doc, passwordOk, t) ==
    IF doc.accountLocked /\ doc.lockExpiry # NoDate /\ doc.lockExpiry > t
    THEN [status |-> 423, doc |-> doc]
    ELSE LET unlocked == IF doc.accountLocked
                         THEN [doc EXCEPT !.accountLocked = FALSE, !.lockExpiry = NoDate]
                         ELSE doc
             failed == [unlocked EXCEPT !.loginAttempts = @ + 1]
         IN IF ~passwordOk
            THEN IF failed.loginAttempts >= MAX_LOGIN_ATTEMPTS
                 THEN [status |-> 423,
                       doc |-> [failed EXCEPT !.accountLocked = TRUE,
                                              !.lockExpiry = t + LOCK_TIME]]
                 ELSE [status |-> 401, doc |-> failed]
            ELSE [status |-> 200, doc |-> [unlocked EXCEPT !.loginAttempts = 0]]

\* The status the handler answers with and the document it leaves, for an
\* existing account at time t.
LoginOutcome(doc, passwordOk, t) ==
    IF doc.accountLocked /\ doc.lockExpiry # NoDate /\ doc.lockExpiry > t
    THEN [status |-> 423, doc |-> doc]
    ELSE LET unlocked == IF doc.accountLocked
                         THEN [doc EXCEPT !.accountLocked = FALSE,
                                          !.loginAttempts = 0,
                                          !.lockExpiry = NoDate]
                         ELSE doc
             failed == [unlocked EXCEPT !.loginAttempts = @ + 1]
         IN IF ~passwordOk
            THEN IF failed.loginAttempts >= MAX_LOGIN_ATTEMPTS
                 THEN [status |-> 423,
                       doc |-> [failed EXCEPT !.accountLocked = TRUE,
                                              !.lockExpiry = t + LOCK_TIME]]
                 ELSE [status |-> 401, doc |-> failed]
            ELSE [status |-> 200, doc |-> [unlocked EXCEPT !.loginAttempts = 0]]

\* history.failures counts the wrong passwords in a row: an attempt turned
\* away by the lock is not counted, a correct password or the lifting of an
\* expired lock starts the count again.
Login(passwordOk) ==
    /\ LET turnedAway == /\ player.accountLocked
                         /\ player.lockExpiry # NoDate
                         /\ player.lockExpiry > now
           outcome == LoginOutcome(player, passwordOk, now)
           before == IF player.accountLocked THEN 0 ELSE history.failures
       IN /\ player' = Save(outcome.doc)
          /\ history' = IF turnedAway THEN history
                        ELSE [history EXCEPT
                                 !.failures = IF passwordOk THEN 0 ELSE before + 1]
          /\ last' = Event("login", Absent,
                           [passwordOk |-> passwordOk, status |-> outcome.status],
                           FALSE, <<>>)
    /\ emitted' = <<>>
    /\ UNCHANGED <<realtime, now, procs>>

\* Time passes between two logins.
Elapse(d) ==
    /\ now + d <= MaxLockPeriods * LOCK_TIME
    /\ now' = now + d
    /\ emitted' = <<>>
    /\ last' = Event("tick", Absent, NoPayload, FALSE, <<>>)
    /\ UNCHANGED <<realtime, store>>

\* ------------------------------------------------------ background jobs
\* The clock advances between two handlers.
Tick(d) ==
    /\ now + d <= MaxNow
    /\ now' = now + d
    /\ emitted' = <<>>
    /\ last' = Event("tick", Absent, NoPayload, FALSE, <<>>)
    /\ UNCHANGED <<sockets, nextId, activePlayers, playerSockets, recentSpells,
                   nextSweep, castsSinceSweep, lastJoin, pending, store>>

\* Variant: i advances after a splice as well.
RECURSIVE SweepLoopSkipping(_, _, _)
SweepLoopSkipping(buf, i, t) ==
    IF i <= Len(buf)
    THEN IF t - buf[i].timestamp > SPELL_TIMEOUT
         THEN SweepLoopSkipping(SubSeq(buf, 1, i - 1) \o SubSeq(buf, i + 1, Len(buf)),
                                i + 1, t)
         ELSE SweepLoopSkipping(buf, i + 1, t)
    ELSE buf

\* let i = 0; while (i < length) { if (now - buf[i].timestamp > timeout)
\* splice(i, 1) else i++ }      (i counts from 1 here)
RECURSIVE SweepLoop(_, _, _)
SweepLoop(buf, i, t) ==
    IF i <= Len(buf)
    THEN IF t - buf[i].timestamp > SPELL_TIMEOUT
         THEN SweepLoop(SubSeq(buf, 1, i - 1) \o SubSeq(buf, i + 1, Len(buf)), i, t)
         ELSE SweepLoop(buf, i + 1, t)
    ELSE buf

\* setInterval(..., 5000): the callback runs once the interval has passed.
Sweep ==
    /\ now >= nextSweep
    /\ recentSpells' = SweepLoop(recentSpells, 1, now)
    /\ nextSweep' = now + SWEEP_INTERVAL
    /\ castsSinceSweep' = <<>>
    /\ emitted' = <<>>
    /\ last' = Event("sweep", Absent, [before |-> Len(recentSpells)], FALSE, <<>>)
    /\ UNCHANGED <<sockets, nextId, activePlayers, playerSockets, now, lastJoin, pending, store>>

\* ------------------------------------------------------- specifications
\* The whole real-time layer.  Its parts below keep the state space small
\* enough to explore: the relay with the clock standing still, the registry
\* under joins alone, and the spell buffer with a single caster.
Next ==
    \/ Connect(MaxConns)
    \/ \E c \in sockets, data \in JoinPayloads : Join(c, data)
    \/ \E c \in sockets, data \in MovePayloads : Move(c, data)
    \/ \E c \in sockets, data \in SpellPayloads : SpellCast(c, data, MaxCasts)
    \/ \E c \in sockets, data \in DamagePayloads : DamageDealt(c, data)
    \/ \E c \in sockets, data \in DeathPayloads : PlayerDeath(c, data)
    \/ \E c \in sockets, data \in ChatPayloads : ChatMessage(c, data)
    \/ \E c \in sockets : Disconnect(c)
    \/ \E d \in TickSteps : Tick(d)
    \/ Sweep

Spec == Init /\ [][Next]_vars

\* The event relay alone: every socket handler, the clock standing still.
NextRelay ==
    \/ Connect(MaxConns)
    \/ \E c \in sockets, data \in JoinPayloads : Join(c, data)
    \/ \E c \in sockets, data \in MovePayloads : Move(c, data)
    \/ \E c \in sockets, data \in SpellPayloads : SpellCast(c, data, MaxCasts)
    \/ \E c \in sockets, data \in DamagePayloads : DamageDealt(c, data)
    \/ \E c \in sockets, data \in DeathPayloads : PlayerDeath(c, data)
    \/ \E c \in sockets, data \in ChatPayloads : ChatMessage(c, data)
    \/ \E c \in sockets : Disconnect(c)

SpecRelay == Init /\ [][NextRelay]_vars

\* The registry under joins alone.
NextRegister ==
    \/ Connect(MaxConns)
    \/ \E c \in sockets, data \in JoinPayloads : Join(c, data)

SpecRegister == Init /\ [][NextRegister]_vars

\* The age sweep: casts, the clock in steps that reach an age of exactly
\* SPELL_TIMEOUT, and the interval timer.
NextSweep ==
    \/ Connect(MaxCasters)
    \/ \E c \in sockets, data \in CasterPayloads : Join(c, data)
    \/ \E c \in sockets, data \in SpellPayloads : SpellCast(c, data, MaxSweepCasts)
    \/ \E d \in TickSteps : Tick(d)
    \/ Sweep

SpecSweep == Init /\ [][NextSweep]_vars

\* The capacity bound: more than MAX_SPELL_HISTORY casts between two sweeps.
NextOverflow ==
    \/ Connect(MaxCasters)
    \/ \E c \in sockets, data \in CasterPayloads : Join(c, data)
    \/ \E c \in sockets, data \in SpellPayloads :
          SpellCast(c, data, MAX_SPELL_HISTORY + OverCapacity)
    \/ \E d \in LongTickSteps : Tick(d)
    \/ Sweep

SpecOverflow == Init /\ [][NextOverflow]_vars

\* The relay without movement: sessions keep the position they joined with.
NextStanding ==
    \/ Connect(MaxConns)
    \/ \E c \in 1..MaxConns, data \in JoinPayloads : Join(c, data)
    \/ \E c \in 1..MaxConns, data \in SpellPayloads : SpellCast(c, data, MaxCasts)
    \/ \E c \in 1..MaxConns, data \in DamagePayloads : DamageDealt(c, data)
    \/ \E c \in 1..MaxConns, data \in DeathPayloads : PlayerDeath(c, data)
    \/ \E c \in 1..MaxConns, data \in ChatPayloads : ChatMessage(c, data)
    \/ \E c \in 1..MaxConns : Disconnect(c)

SpecStanding == Init /\ [][NextStanding]_vars

\* Joins and disconnects only.
NextSessions ==
    \/ Connect(MaxConns)
    \/ \E c \in 1..MaxConns, data \in JoinPayloads : Join(c, data)
    \/ \E c \in 1..MaxConns : Disconnect(c)

SpecSessions == Init /\ [][NextSessions]_vars

\* The registry under socket events and REST position updates.
NextPosition ==
    \/ Connect(MaxPeers)
    \/ \E c \in 1..MaxPeers, data \in JoinPayloads : Join(c, data)
    \/ \E c \in 1..MaxPeers, data \in MovePayloads : Move(c, data)
    \/ \E c \in 1..MaxPeers : Disconnect(c)
    \/ \E body \in PositionBodies : PositionBegin(body)
    \/ \E i \in 1..MaxPending : PositionEnd(i)

SpecPosition == Init /\ [][NextPosition]_vars

\* Events whose payload may lack a required field.
NextMalformed ==
    \/ Connect(MaxPeers)
    \/ \E c \in 1..MaxPeers, data \in JoinPayloads \cup MalformedJoinPayloads :
           Join(c, data)
    \/ \E c \in 1..MaxPeers, data \in MovePayloads \cup MalformedMovePayloads :
           Move(c, data)
    \/ \E c \in 1..MaxPeers, data \in DamagePayloads \cup MalformedDamagePayloads :
           DamageDealt(c, data)

SpecMalformed == Init /\ [][NextMalformed]_vars

\* The level calculators over every total XP up to MaxTotalXP.
NextLevels == \E xp \in 0..MaxTotalXP : Calculate(xp)

SpecLevels == Init /\ [][NextLevels]_vars

\* The XP of one player record.
NextXP ==
    \/ \E amount \in XpAmounts : XpAdd(amount)
    \/ \E amount \in RemoveAmounts : XpRemove(amount)
    \/ \E body \in KillBodies : EnemyKill(body)
    \/ \E body \in QuestBodies : QuestComplete(body)
    \/ PlayerDeathRoute
    \/ ResetProgress

SpecXP == Init /\ [][NextXP]_vars

\* Purchases of one player, up to MaxInFlight of them at a time.
NextPurchase ==
    \/ \E body \in PurchaseBodies : PurchaseFind(body)
    \/ \E i \in 1..MaxInFlight : PurchaseSave(i)

SpecPurchase == Init /\ [][NextPurchase]_vars

\* The logins to one account.
NextLogin ==
    \/ \E passwordOk \in BOOLEAN : Login(passwordOk)
    \/ \E d \in LockSteps : Elapse(d)

SpecLogin == Init /\ [][NextLogin]_vars

\* --------------------------------------------------------------- claims
Of(event) == SelectSeq(emitted, LAMBDA d : d.event = event)

\* How many deliveries of `event` with `payload` the sequence ds makes to c.
Count(ds, c, event, payload) ==
    Cardinality({i \in DOMAIN ds :
                    ds[i].to = c /\ ds[i].event = event /\ ds[i].payload = payload})

NonJoinEvents ==
    {"player:move", "spell:cast", "damage:dealt", "player:death", "chat:message",
     "disconnect"}

\* C1: damage-dealt from a joined socket whose targetId resolves to a
\* connected socket delivers exactly one damage-received {attackerId, damage,
\* source}, to that socket and to no other; when the targetId does not
\* resolve to a connected socket, nothing is delivered.
C1_DamageUnicast ==
    (last.type = "damage:dealt" /\ last.joined) =>
        LET target == activePlayers[last.data.targetId]
            msg == [attackerId |-> MapGet(playerSockets, last.conn).playerId,
                    damage |-> last.data.damage, source |-> last.data.source]
        IN /\ (target # Absent /\ target \in sockets) =>
                  emitted = <<Delivery(target, "damage:received", msg)>>
           /\ target \notin sockets => emitted = <<>>

C1_Witness ==
    /\ last.type = "damage:dealt" /\ last.joined
    /\ Cardinality(sockets) = 3
    /\ Len(emitted) = 1
    /\ emitted[1].to # last.conn

\* C2: under joins alone, activePlayers.get(p) is the socket of the most
\* recent join that carried p, for every p.
C2_ResolveLatestJoin ==
    \A p \in DOMAIN activePlayers : activePlayers[p] = lastJoin[p]

C2_Witness ==
    /\ last.type = "player:join"
    /\ \E c \in MapKeys(playerSockets) :
          /\ c # last.conn
          /\ IdOf(MapGet(playerSockets, c)) = IdOf(last.data)
    /\ activePlayers[IdOf(last.data)] = last.conn

\* C3: the disconnect of a joined socket c with playerId p leaves p without a
\* pointer and c without a session; the disconnect of a socket without a
\* session changes neither Map nor the spell buffer.
C3_Deregister ==
    [][last'.type = "disconnect" =>
        LET c == last'.conn
            playerData == MapGet(playerSockets, c)
        IN IF playerData # NoSession
           THEN /\ activePlayers'[IdOf(playerData)] = Absent
                /\ ~MapHas(playerSockets', c)
           ELSE UNCHANGED <<activePlayers, playerSockets, recentSpells>>]_vars

C3_Witness ==
    /\ last.type = "disconnect" /\ last.joined
    /\ playerSockets # <<>>
    /\ \E p \in PlayerIds : activePlayers[p] \in sockets

\* C4: a non-join event from a socket that has no session emits nothing and
\* leaves both Maps and the spell buffer as they were.
C4_UnjoinedIgnored ==
    [][(last'.type \in NonJoinEvents /\ ~MapHas(playerSockets, last'.conn)) =>
        /\ emitted' = <<>>
        /\ UNCHANGED <<activePlayers, playerSockets, recentSpells>>]_vars

C4_Witness ==
    /\ last.type = "chat:message" /\ ~last.joined
    /\ recentSpells # <<>>
    /\ playerSockets # <<>>
    /\ Cardinality(sockets) >= 2

\* The roster of a join: one players:list, to the joiner alone, whose entries
\* are the public fields of the sessions stored under the sockets in `from`,
\* one entry per socket.
RosterIsOf(from) ==
    LET lists == Of("players:list")
    IN /\ Len(lists) = 1
       /\ lists[1].to = last.conn
       /\ DOMAIN lists[1].payload = {"players"}
       /\ Len(lists[1].payload.players) = Len(last.from)
       /\ \A i \in DOMAIN last.from :
             lists[1].payload.players[i] =
                 [playerId |-> MapGet(playerSockets, last.from[i]).playerId,
                  username |-> MapGet(playerSockets, last.from[i]).username,
                  house |-> MapGet(playerSockets, last.from[i]).house,
                  position |-> MapGet(playerSockets, last.from[i]).position]
       /\ \A i, j \in DOMAIN last.from : last.from[i] = last.from[j] => i = j
       /\ {last.from[i] : i \in DOMAIN last.from} = from

C6_JoinAnnounced ==
    last.type = "player:join" =>
        LET position == IF "position" \in DOMAIN last.data THEN last.data.position
                        ELSE [x |-> 0, y |-> 0]
            msg == [playerId |-> last.data.playerId, username |-> last.data.username,
                    house |-> last.data.house, position |-> position]
        IN /\ \A c \in sockets \ {last.conn} :
                 Count(emitted, c, "player:joined", msg) = 1
           /\ Len(Of("player:joined")) = Cardinality(sockets \ {last.conn})
           /\ MapGet(playerSockets, last.conn).position = position

C6_Witness ==
    /\ last.type = "player:join"
    /\ "position" \notin DOMAIN last.data
    /\ Cardinality(sockets) = 3

\* C7: the roster computed for a joining socket never has an entry taken from
\* the session stored under that socket, also when the socket joined before
\* under another playerId.
C7_RosterExcludesJoiner ==
    last.type = "player:join" =>
        \A i \in DOMAIN last.from : last.from[i] # last.conn

C7_Witness ==
    /\ last.type = "player:join"
    /\ \E p \in PlayerIds : p # IdOf(last.data) /\ activePlayers[p] = last.conn
    /\ Len(last.from) > 0

\* C8: the disconnect of a joined socket with playerId p delivers one
\* player-left carrying the bare value p to every socket that remains and
\* none to the departed one, and p has no pointer afterwards.
C8_DepartureAnnounced ==
    [][(last'.type = "disconnect" /\ MapHas(playerSockets, last'.conn)) =>
        LET p == IdOf(MapGet(playerSockets, last'.conn))
        IN /\ last'.conn \notin sockets'
           /\ \A c \in sockets' : Count(emitted', c, "player:left", p) = 1
           /\ Len(emitted') = Cardinality(sockets')
           /\ activePlayers'[p] = Absent]_vars

C8_Witness ==
    /\ last.type = "disconnect" /\ last.joined
    /\ Cardinality(sockets) = 2
    /\ Len(Of("player:left")) = 2

\* C9: once more than MAX_SPELL_HISTORY records were pushed with no sweep in
\* between, the buffer is the last MAX_SPELL_HISTORY of them, in arrival order.
C9_BufferKeepsNewest ==
    Len(castsSinceSweep) > MAX_SPELL_HISTORY =>
        recentSpells = SubSeq(castsSinceSweep,
                              Len(castsSinceSweep) - MAX_SPELL_HISTORY + 1,
                              Len(castsSinceSweep))

C9_Witness ==
    /\ Len(castsSinceSweep) = MAX_SPELL_HISTORY + 2
    /\ Len(recentSpells) = MAX_SPELL_HISTORY
    /\ recentSpells[1].timestamp # recentSpells[MAX_SPELL_HISTORY].timestamp

\* C10: right after a sweep no record of the buffer is older than
\* SPELL_TIMEOUT, whatever the buffer held before.
C10_SweepRemovesOld ==
    last.type = "sweep" =>
        \A i \in DOMAIN recentSpells : now - recentSpells[i].timestamp <= SPELL_TIMEOUT

C10_Witness ==
    /\ last.type = "sweep"
    /\ last.data.before = 3
    /\ Len(recentSpells) = 1
    /\ now - recentSpells[1].timestamp = SPELL_TIMEOUT

\* C11: an event whose payload lacks a required field (a join without
\* playerId, a move without position, a damage-dealt without targetId) is
\* ignored: its handler throws nothing, emits nothing and leaves both maps
\* and the buffer as they were.
C11_MalformedIgnored ==
    [][(\/ last'.type = "player:join" /\ "playerId" \notin DOMAIN last'.data
        \/ last'.type = "player:move" /\ "position" \notin DOMAIN last'.data
        \/ last'.type = "damage:dealt" /\ "targetId" \notin DOMAIN last'.data) =>
          /\ ~last'.threw
          /\ emitted' = <<>>
          /\ UNCHANGED <<activePlayers, playerSockets, recentSpells>>]_vars

\* C12: a chat-message from a joined socket delivers exactly one chat-message
\* to every connected socket, the sender included, with the username and
\* house of the sender's session, whatever the payload says, and the
\* payload's message.
C12_ChatToEveryone ==
    (last.type = "chat:message" /\ last.joined) =>
        LET playerData == MapGet(playerSockets, last.conn)
            msg == [username |-> playerData.username, house |-> playerData.house,
                    message |-> last.data.message, timestamp |-> now]
        IN /\ \A c \in sockets : Count(emitted, c, "chat:message", msg) = 1
           /\ Len(emitted) = Cardinality(sockets)

C12_Witness ==
    /\ last.type = "chat:message" /\ last.joined
    /\ Cardinality(sockets) = 3
    /\ Len(emitted) = 3
    /\ MapGet(playerSockets, last.conn).username # last.data.username
    /\ \E i \in DOMAIN emitted : emitted[i].to = last.conn

\* C13: a move that carries a position, from a joined socket, sets the
\* position of that socket's session to the payload's and changes nothing
\* else in the registry; it delivers exactly one player-moved to every other
\* socket and none to the sender, with the session's playerId, the new
\* position and the health and maxHealth stored at that moment.
C13_MoveRelayed ==
    [][(last'.type = "player:move" /\ last'.joined /\ "position" \in DOMAIN last'.data) =>
          LET c == last'.conn
              before == MapGet(playerSockets, c)
              after == MapGet(playerSockets', c)
              msg == [playerId |-> before.playerId, username |-> before.username,
                      house |-> before.house, position |-> last'.data.position,
                      health |-> before.health, maxHealth |-> before.maxHealth]
          IN /\ after.position = last'.data.position
             /\ Pick(after, DOMAIN after \ {"position"})
                    = Pick(before, DOMAIN before \ {"position"})
             /\ MapKeys(playerSockets') = MapKeys(playerSockets)
             /\ \A o \in MapKeys(playerSockets) \ {c} :
                    MapGet(playerSockets', o) = MapGet(playerSockets, o)
             /\ activePlayers' = activePlayers
             /\ \A o \in sockets \ {c} : Count(emitted', o, "player:moved", msg) = 1
             /\ Len(emitted') = Cardinality(sockets \ {c})]_vars

C13_Witness ==
    /\ last.type = "player:move" /\ last.joined
    /\ Cardinality(sockets) = 2
    /\ Len(emitted) = 1
    /\ emitted[1].to # last.conn
    /\ emitted[1].payload.health # INITIAL_HEALTH
    /\ MapGet(playerSockets, last.conn).position = last.data.position

C15_DeathRelayed ==
    (last.type = "player:death" /\ last.joined) =>
        LET msg == [playerId |-> MapGet(playerSockets, last.conn).playerId,
                    killerId |-> last.data.killerId]
        IN /\ \A c \in sockets \ {last.conn} :
                 Count(emitted, c, "player:died", msg) = 1
           /\ Len(emitted) = Cardinality(sockets \ {last.conn})

C15_Witness ==
    /\ last.type = "player:death" /\ last.joined
    /\ Cardinality(sockets) = 3
    /\ Len(emitted) = 2
    /\ MapGet(playerSockets, last.conn).playerId # last.data.playerId

\* C16: a join always registers: afterwards activePlayers resolves the
\* payload's playerId to the joining socket and playerSockets holds the
\* payload's session under it.  A join that repeats the join handled just
\* before it, from the same socket with the same payload, leaves both maps as
\* the first one left them.
C16_JoinIdempotent ==
    [][last'.type = "player:join" =>
          LET c == last'.conn
              data == last'.data
          IN /\ activePlayers'[data.playerId] = c
             /\ Cardinality({i \in DOMAIN playerSockets' : playerSockets'[i].id = c}) = 1
             /\ Pick(MapGet(playerSockets', c), {"playerId", "username", "house"})
                    = Pick(data, {"playerId", "username", "house"})
             /\ last'.repeated => UNCHANGED <<activePlayers, playerSockets>>]_vars

C16_Witness ==
    /\ last.type = "player:join" /\ last.repeated
    /\ Len(playerSockets) = 2
    /\ playerSockets[1].id = last.conn

\* C17: under joins and disconnects there is at most one session per socket,
\* and at most one connected socket whose session carries a given playerId.
C17_OneLiveConnectionPerPlayer ==
    /\ \A i, j \in DOMAIN playerSockets :
           playerSockets[i].id = playerSockets[j].id => i = j
    /\ \A p \in PlayerIds :
           Cardinality({c \in sockets : /\ MapHas(playerSockets, c)
                                        /\ MapGet(playerSockets, c).playerId = p}) <= 1

\* C17, amended: under joins and disconnects there is at most one session
\* per socket and every session is stored under a connected socket; the
\* sessions of several connected sockets may carry the same playerId.
C17_OneSessionPerConnection ==
    /\ \A i, j \in DOMAIN playerSockets :
           playerSockets[i].id = playerSockets[j].id => i = j
    /\ MapKeys(playerSockets) \subseteq sockets

C17_Witness ==
    /\ last.type = "disconnect" /\ last.joined
    /\ \E c1, c2 \in sockets :
           /\ c1 # c2
           /\ MapHas(playerSockets, c1) /\ MapHas(playerSockets, c2)
           /\ MapGet(playerSockets, c1).playerId = MapGet(playerSockets, c2).playerId

\* C18: after every event the two maps agree: activePlayers maps p to c if
\* and only if playerSockets holds under c a session whose playerId is p.
C18_ViewsAgree ==
    \A p \in PlayerIds, c \in 1..(nextId - 1) :
        activePlayers[p] = c <=>
            (MapHas(playerSockets, c) /\ MapGet(playerSockets, c).playerId = p)

\* C19: every handler that writes the registry does all of its writes in its
\* first turn: a join sets the pointer and the session, a disconnect removes
\* both, a move and a REST position update write the session before the
\* handler yields, and the turn that follows the REST handler's await writes
\* nothing; the REST handler changes neither activePlayers nor the set of
\* sockets that have a session.
C19_WritesBeforeYield ==
    [][LET c == last'.conn
           data == last'.data
       IN /\ last'.type = "player:join" =>
                /\ activePlayers'[data.playerId] = c
                /\ MapGet(playerSockets', c).playerId = data.playerId
          /\ (last'.type = "disconnect" /\ last'.joined) =>
                /\ ~MapHas(playerSockets', c)
                /\ activePlayers'[MapGet(playerSockets, c).playerId] = Absent
          /\ (last'.type = "player:move" /\ last'.joined) =>
                MapGet(playerSockets', c).position = data.position
          /\ (last'.type = "position:begin" /\ c # Absent) =>
                Pick(MapGet(playerSockets', c), {"position", "zoneId", "health", "maxHealth"})
                    = Pick(data, {"position", "zoneId", "health", "maxHealth"})
          /\ last'.type \in {"position:begin", "position:end", "position:rejected"} =>
                /\ activePlayers' = activePlayers
                /\ MapKeys(playerSockets') = MapKeys(playerSockets)
          /\ last'.type = "position:end" => playerSockets' = playerSockets]_vars

C19_Witness ==
    /\ last.type = "player:move" /\ last.joined
    /\ Len(pending) = 1
    /\ MapGet(playerSockets, last.conn).health = pending[1].health

\* C20: damage-dealt, player-death and chat-message change neither map, no
\* field of any session (health included) and not the buffer.
C20_RelayOnly ==
    [][last'.type \in {"damage:dealt", "player:death", "chat:message"} =>
          UNCHANGED <<activePlayers, playerSockets, recentSpells>>]_vars

C20_Witness ==
    /\ last.type = "damage:dealt" /\ last.joined
    /\ Len(emitted) = 1
    /\ MapGet(playerSockets, emitted[1].to).health = INITIAL_HEALTH
    /\ recentSpells # <<>>

\* The sockets whose session carries a playerId that activePlayers resolves
\* to another socket.
Superseded(ap, ps, S) ==
    {c \in S : MapHas(ps, c) /\ ap[IdOf(MapGet(ps, c))] # c}

\* C21: a join for playerId p from socket c2 while another connected socket
\* c1 holds a session for p supersedes c1 silently: afterwards p resolves to
\* c2, c1's session is stored as before and c1 is sent the ordinary
\* player-joined and nothing else; a superseded socket is still sent every
\* later chat, death and spell broadcast of the other sockets.
C21_SilentSupersede ==
    [][LET c2 == last'.conn
       IN /\ last'.type = "player:join" =>
                \A c1 \in sockets \ {c2} :
                    (MapHas(playerSockets, c1)
                     /\ MapGet(playerSockets, c1).playerId = last'.data.playerId) =>
                        /\ activePlayers'[last'.data.playerId] = c2
                        /\ MapGet(playerSockets', c1) = MapGet(playerSockets, c1)
                        /\ Cardinality({i \in DOMAIN emitted' : emitted'[i].to = c1}) = 1
                        /\ \A i \in DOMAIN emitted' :
                               emitted'[i].to = c1 =>
                                   /\ emitted'[i].event = "player:joined"
                                   /\ emitted'[i].payload.playerId = last'.data.playerId
          /\ (last'.type \in {"chat:message", "player:death", "spell:cast"} /\ last'.joined) =>
                \A c1 \in Superseded(activePlayers, playerSockets, sockets) \ {c2} :
                    Cardinality({i \in DOMAIN emitted' : emitted'[i].to = c1}) = 1]_vars

C21_Witness ==
    /\ last.type = "chat:message" /\ last.joined
    /\ activePlayers[MapGet(playerSockets, last.conn).playerId] = last.conn
    /\ \E c1 \in Superseded(activePlayers, playerSockets, sockets) :
           /\ MapGet(playerSockets, c1).playerId = MapGet(playerSockets, last.conn).playerId
           /\ \E i \in DOMAIN emitted : emitted[i].to = c1

\* C22: a damage-received for targetId p is delivered only to a connected
\* socket whose current session has playerId p.
C22_DamageReachesTarget ==
    last.type = "damage:dealt" =>
        \A i \in DOMAIN emitted :
            /\ emitted[i].to \in sockets
            /\ MapHas(playerSockets, emitted[i].to)
            /\ MapGet(playerSockets, emitted[i].to).playerId = last.data.targetId

\* C23: a disconnect of socket c leaves every playerId that resolved to
\* another socket resolving to that socket.
C23_DisconnectOwnEntries ==
    [][last'.type = "disconnect" =>
          \A p \in PlayerIds :
              (activePlayers[p] # Absent /\ activePlayers[p] # last'.conn) =>
                  activePlayers'[p] = activePlayers[p]]_vars

\* C24: with casts and sweeps interleaved, each run to completion, the
\* buffer never has more than MAX_SPELL_HISTORY records and its timestamps
\* never decrease from head to tail; a sweep removes exactly the records
\* older than SPELL_TIMEOUT and keeps the others in their order.
C24_BufferBoundedOrderedSwept ==
    [][/\ Len(recentSpells') <= MAX_SPELL_HISTORY
       /\ \A i, j \in DOMAIN recentSpells' :
              i < j => recentSpells'[i].timestamp <= recentSpells'[j].timestamp
       /\ last'.type = "sweep" =>
              recentSpells' =
                  SelectSeq(recentSpells,
                            LAMBDA r : now' - r.timestamp <= SPELL_TIMEOUT)]_vars

C24_Witness ==
    /\ last.type = "sweep"
    /\ last.data.before = MAX_SPELL_HISTORY
    /\ Len(recentSpells) > 0
    /\ Len(recentSpells) < MAX_SPELL_HISTORY

\* C25: for every integer total XP >= 0, calculateLevelAndProgress returns
\* level = floor(xp / 100) and progress = floor(xp / 20) mod 5, between 0 and
\* 4, so that getTotalXPForLevel(level) <= xp < getTotalXPForLevel(level + 1);
\* the helper of routes/game.js returns the same level and progress.
C25_LevelAndProgress ==
    last.type = "calculate" =>
        LET xp == last.data.xp
            result == last.data.calculator
        IN /\ result.level = xp \div 100
           /\ result.progress = (xp \div 20) % 5
           /\ result.progress >= 0 /\ result.progress <= 4
           /\ getTotalXPForLevel(result.level) <= xp
           /\ xp < getTotalXPForLevel(result.level + 1)
           /\ last.data.game.level = result.level
           /\ last.data.game.progress = result.progress

C25_Witness ==
    /\ last.type = "calculate"
    /\ last.data.xp = 299
    /\ last.data.calculator.level = 2
    /\ last.data.calculator.progress = 4

\* C26: from the schema defaults on, and after any sequence of add-XP,
\* remove-XP, enemy-kill, quest-complete, player-death and reset-progress
\* operations, the stored xpLevel is floor(xp / 100) and the stored
\* xpProgress is floor(xp / 20) mod 5.
C26_StoredLevelMatchesXP ==
    /\ player.xpLevel = player.xp \div 100
    /\ player.xpProgress = (player.xp \div 20) % 5

\* C27: after any sequence of XP awards every spell whose unlock level is at
\* most the player's level is unlocked, and an award that raises the level
\* grants the per-level reward once for each level passed.
C27_UnlocksAndRewardsPerLevel ==
    [][/\ \A i \in DOMAIN SPELL_UNLOCKS :
              SPELL_UNLOCKS[i].unlockLevel <= player'.xpLevel =>
                  Includes(player'.unlockedSpells, SPELL_UNLOCKS[i].spellName)
       /\ (last'.type \in {"xp:add", "combat:enemy-kill", "quest:complete"}
           /\ player'.xpLevel > player.xpLevel) =>
              /\ player'.maxHealth >= player.maxHealth
                     + HEALTH_INCREASE_PER_LEVEL * (player'.xpLevel - player.xpLevel)
              /\ player'.galleons >= player.galleons
                     + GALLEONS_PER_LEVEL * (player'.xpLevel - player.xpLevel)]_vars

\* C28: whatever the quantity of a purchase request (absent, zero, positive
\* or negative), the player's galleons afterwards are not greater than
\* before and not negative; a request whose total cost exceeds the galleons
\* is rejected with the record unchanged; a successful purchase deducts
\* price times the purchased quantity, which is at least 1.
C28_PurchaseNeverGains ==
    [][last'.type \in {"purchase:find", "purchase:save"} =>
          /\ player'.galleons <= player.galleons
          /\ player'.galleons >= 0
          /\ last'.data.status # 200 => player' = player
          /\ (last'.type = "purchase:save" /\ last'.data.status = 200) =>
                 LET quantity == IF "quantity" \in DOMAIN last'.data.body
                                    /\ last'.data.body.quantity # 0
                                 THEN last'.data.body.quantity ELSE 1
                 IN /\ quantity >= 1
                    /\ last'.data.totalCost
                           = SHOP_ITEMS[last'.data.body.itemId].price * quantity]_vars

\* C29: once the purchase requests for a player have ended, in whatever
\* order their reads and saves ran, the stored galleons are the initial
\* galleons minus the summed cost of the purchases that reported success, and
\* they are never negative.
C29_NoLostDeduction ==
    /\ player.galleons >= 0
    /\ procs = <<>> => player.galleons = SchemaDefaults.galleons - history.spent

\* C30: the fifth wrong password in a row locks the account for LOCK_TIME;
\* while the lock has not expired every login, also one with the correct
\* password, is rejected and changes nothing; the first login after the
\* expiry lifts the lock and counts from 0 before the password is checked;
\* a successful login sets loginAttempts to 0; loginAttempts never exceeds
\* MAX_LOGIN_ATTEMPTS.
C30_LoginLockout ==
    [][last'.type = "login" =>
          LET locked == player.accountLocked /\ player.lockExpiry > now
              expired == player.accountLocked /\ player.lockExpiry <= now
          IN /\ ~locked =>
                    /\ player'.accountLocked <=> history'.failures = MAX_LOGIN_ATTEMPTS
                    /\ player'.accountLocked => player'.lockExpiry = now + LOCK_TIME
             /\ locked => (last'.data.status = 423 /\ player' = player)
             /\ expired =>
                    /\ ~player'.accountLocked
                    /\ player'.loginAttempts = IF last'.data.passwordOk THEN 0 ELSE 1
             /\ (last'.data.passwordOk /\ ~locked) =>
                    (last'.data.status = 200 /\ player'.loginAttempts = 0)
             /\ player'.loginAttempts <= MAX_LOGIN_ATTEMPTS]_vars

C30_Witness ==
    /\ last.type = "login"
    /\ last.data.passwordOk
    /\ last.data.status = 423
    /\ player.loginAttempts = MAX_LOGIN_ATTEMPTS
    /\ player.lockExpiry > now
    /\ now > 0

====
